---- MODULE Spec2Model ----
(***************************************************************************)
(* Model of app.py, the Streamlit page "Airbnb Price Predictor".           *)
(*                                                                         *)
(* A Streamlit page is a script that is re-run from top to bottom after    *)
(* every widget event.  The state that survives between runs is            *)
(* st.session_state (one entry per keyed widget plus "last_city"), the     *)
(* state of the unkeyed checkbox, and the process-wide st.cache_resource   *)
(* entry of load_model.  A widget event stores the new widget value and    *)
(* requests a re-run (pc = "pending"); RunScript is one whole run.         *)
(*                                                                         *)
(* Numbers: latitude and longitude are held in units of 1e-6 degree (the   *)
(* widgets' "%.6f"), reviews_per_month in units of 0.01 (its "%.2f"), so   *)
(* that 48.8566 is 48856600 and 0.1 is 10.                                 *)
(***************************************************************************)
EXTENDS Integers, Sequences, FiniteSets, TLC

VARIABLES
    session_state,    \* st.session_state: a function from the keys that are set
    checkbox,         \* state of the "Show top 5 feature importances" checkbox
    left_edit,        \* history: the city last left with a hand-edited latitude
    pc,               \* "pending" (run requested), "idle" (page shown), "error"
    cache,            \* the st.cache_resource entry of load_model
    model,            \* module global `model` of the latest run
    scaler,           \* module global `scaler` of the latest run
    model_loads,      \* history: joblib.load calls that returned the model
    scaler_loads,     \* history: joblib.load calls that returned the scaler
    load_attempts,    \* history: executions of the body of load_model
    importances,      \* model.feature_importances_ of the artifact on disk
    input_df,         \* the one-row frame of the latest run, as a sequence
    predicted_price,  \* the price written by the latest run
    fi_df,            \* the rows of the importance chart of the latest run
    map_location      \* location of the folium map and marker of the latest run

vars == <<session_state, checkbox, left_edit, pc, cache, model, scaler,
          model_loads, scaler_loads, load_attempts, importances, input_df,
          predicted_price, fi_df, map_location>>

\* What the variables hold before the script has assigned them.
NoHandles == [model |-> 0, scaler |-> 0]
NoPrice == [model |-> 0, X |-> [scaler |-> 0, x |-> <<>>]]
NoEdit == [city |-> "None", latitude |-> 0]

\* Bounds of the model.
MaxLoadAttempts == 2
MaxWeight == 6

----------------------------------------------------------------------------
(* The static tables.                                                      *)

\* list(city_coords.keys()): a dict keeps its insertion order.
CityList ==
    << "Paris", "Rome", "Amsterdam", "Berlin", "Prague", "Barcelona",
       "Budapest", "Vienna", "Athens", "Istanbul", "Dublin", "Oslo",
       "Stockholm", "Copenhagen", "Brussels" >>

city_coords ==
    [c \in {CityList[i] : i \in 1..Len(CityList)} |->
        CASE c = "Paris"      -> <<48856600, 2352200>>
          [] c = "Rome"       -> <<41902800, 12496400>>
          [] c = "Amsterdam"  -> <<52367600, 4904100>>
          [] c = "Berlin"     -> <<52520000, 13405000>>
          [] c = "Prague"     -> <<50075500, 14437800>>
          [] c = "Barcelona"  -> <<41385100, 2173400>>
          [] c = "Budapest"   -> <<47497900, 19040200>>
          [] c = "Vienna"     -> <<48208200, 16373800>>
          [] c = "Athens"     -> <<37983800, 23727500>>
          [] c = "Istanbul"   -> <<41008200, 28978400>>
          [] c = "Dublin"     -> <<53349800, -6260300>>
          [] c = "Oslo"       -> <<59913900, 10752200>>
          [] c = "Stockholm"  -> <<59329300, 18068600>>
          [] c = "Copenhagen" -> <<55676100, 12568300>>
          [] c = "Brussels"   -> <<50850300, 4351700>>]

RoomTypes == << "Entire home/apt", "Private room", "Shared room" >>

room_type_map ==
    [r \in {RoomTypes[i] : i \in 1..Len(RoomTypes)} |->
        CASE r = "Entire home/apt" -> 0
          [] r = "Private room"    -> 1
          [] r = "Shared room"     -> 2]

\* enumerate(..., start=1)
city_map_from_one ==
    [c \in DOMAIN city_coords |->
        CHOOSE i \in 1..Len(CityList) : CityList[i] = c]

\* {c: i for i, c in enumerate(list(city_coords.keys()))}
city_map ==
    [c \in DOMAIN city_coords |->
        (CHOOSE i \in 1..Len(CityList) : CityList[i] = c) - 1]

columns_order ==
    << "latitude", "longitude", "room_type", "minimum_nights",
       "number_of_reviews", "reviews_per_month",
       "calculated_host_listings_count", "availability_365",
       "number_of_reviews_ltm", "city" >>

\* The arguments of the bounded widgets: (min, max, value).
min_nights_slider == [min |-> 1, max |-> 30, value |-> 1]
num_reviews_slider == [min |-> 0, max |-> 500, value |-> 50]
host_listings_slider == [min |-> 1, max |-> 10, value |-> 1]
availability_slider == [min |-> 0, max |-> 365, value |-> 200]
reviews_ltm_number_input == [min |-> 0, max |-> 500, value |-> 0]
\* The Reviews per Month field: value=0.0 and no min_value or max_value.
reviews_per_month_number_input == [value |-> 0]

----------------------------------------------------------------------------
(* st.session_state.                                                       *)

Has(ss, k) == k \in DOMAIN ss

\* ss.get(k, d)
Get(ss, k, d) == IF Has(ss, k) THEN ss[k] ELSE d

\* ss[k] = v
Put(ss, k, v) == [x \in (DOMAIN ss) \cup {k} |-> IF x = k THEN v ELSE ss[x]]

\* A keyed widget registers its default under its key on the first run that
\* creates it and keeps the stored value on every later run.
Widget(ss, k, default) == IF Has(ss, k) THEN ss ELSE Put(ss, k, default)

EmptySession == [k \in {} |-> 0]

----------------------------------------------------------------------------
(* load_model and its cache.                                               *)

\* What the two joblib.load calls of one execution of load_model can do.
LoadOutcomes == {"ok", "model_fails", "scaler_fails"}

\* load_model with the exceptions of joblib.load caught and nothing returned.
load_model_swallowing(outcome, ml, sl) ==
    CASE outcome = "model_fails" ->
            [raised |-> FALSE, handles |-> NoHandles,
             model_loads |-> ml, scaler_loads |-> sl]
      [] outcome = "scaler_fails" ->
            [raised |-> FALSE, handles |-> NoHandles,
             model_loads |-> ml + 1, scaler_loads |-> sl]
      [] OTHER ->
            [raised |-> FALSE,
             handles |-> [model |-> ml + 1, scaler |-> sl + 1],
             model_loads |-> ml + 1, scaler_loads |-> sl + 1]

\* The body of load_model.  joblib.load builds a new object on every call; an
\* object is named by the number of the load that built it.  An exception of
\* either call leaves the function without a return value.
load_model(outcome, ml, sl) ==
    CASE outcome = "model_fails" ->
            [raised |-> TRUE, handles |-> NoHandles,
             model_loads |-> ml, scaler_loads |-> sl]
      [] outcome = "scaler_fails" ->
            [raised |-> TRUE, handles |-> NoHandles,
             model_loads |-> ml + 1, scaler_loads |-> sl]
      [] OTHER ->
            [raised |-> FALSE,
             handles |-> [model |-> ml + 1, scaler |-> sl + 1],
             model_loads |-> ml + 1, scaler_loads |-> sl + 1]

\* load_model without @st.cache_resource: the body runs on every call.
cached_load_model_uncached(entry, outcome, ml, sl, la) ==
    LET r == load_model(outcome, ml, sl)
    IN  [raised |-> r.raised, handles |-> r.handles,
         cache |-> IF r.raised THEN entry ELSE r.handles,
         model_loads |-> r.model_loads, scaler_loads |-> r.scaler_loads,
         load_attempts |-> IF la < MaxLoadAttempts THEN la + 1 ELSE la]

\* @st.cache_resource: the body runs when there is no entry, a returned value
\* becomes the entry, an exception is not stored.
cached_load_model(entry, outcome, ml, sl, la) ==
    IF entry # NoHandles
    THEN [raised |-> FALSE, handles |-> entry, cache |-> entry,
          model_loads |-> ml, scaler_loads |-> sl, load_attempts |-> la]
    ELSE LET r == load_model(outcome, ml, sl)
         IN  [raised |-> r.raised, handles |-> r.handles,
              cache |-> IF r.raised THEN entry ELSE r.handles,
              model_loads |-> r.model_loads, scaler_loads |-> r.scaler_loads,
              load_attempts |-> la + 1]

----------------------------------------------------------------------------
(* The sidebar.                                                            *)

\* city = st.sidebar.selectbox("City", ..., key="city_input"): a selectbox
\* starts on its first option.
CitySelectbox(ss) == Widget(ss, "city_input", CityList[1])

\* The rule without the comparison with last_city.
ReactiveRule_unset_only(ss, city) ==
    IF \/ ~Has(ss, "latitude_input")
       \/ ~Has(ss, "longitude_input")
    THEN Put(Put(Put(ss, "latitude_input", city_coords[city][1]),
                 "longitude_input", city_coords[city][2]),
             "last_city", city)
    ELSE ss

\* The coordinates bound to the city on every run.
ReactiveRule_always(ss, city) ==
    Put(Put(Put(ss, "latitude_input", city_coords[city][1]),
            "longitude_input", city_coords[city][2]),
        "last_city", city)

\* The rule resetting the longitude only while it is unset.
ReactiveRule_latitude_only(ss, city) ==
    IF \/ ~Has(ss, "latitude_input")
       \/ ~Has(ss, "longitude_input")
       \/ Get(ss, "last_city", "None") # city
    THEN Put(Put(Widget(ss, "longitude_input", city_coords[city][2]),
                 "latitude_input", city_coords[city][1]),
             "last_city", city)
    ELSE ss

\* The rule without the store of last_city.
ReactiveRule_no_last_city(ss, city) ==
    IF \/ ~Has(ss, "latitude_input")
       \/ ~Has(ss, "longitude_input")
       \/ Get(ss, "last_city", "None") # city
    THEN Put(Put(ss, "latitude_input", city_coords[city][1]),
             "longitude_input", city_coords[city][2])
    ELSE ss

\* The reactive default rule.
ReactiveRule(ss, city) ==
    IF \/ ~Has(ss, "latitude_input")
       \/ ~Has(ss, "longitude_input")
       \/ Get(ss, "last_city", "None") # city
    THEN Put(Put(Put(ss, "latitude_input", city_coords[city][1]),
                 "longitude_input", city_coords[city][2]),
             "last_city", city)
    ELSE ss

\* The widgets from latitude to number_of_reviews_ltm, in the script's order.
LatLonWidgets(ss) ==
    LET s1 == Widget(ss, "latitude_input", ss["latitude_input"])
    IN  Widget(s1, "longitude_input", s1["longitude_input"])

ListingWidgets(ss) ==
    LET s1 == Widget(ss, "room_type_input", RoomTypes[1])
        s2 == Widget(s1, "min_nights_input", min_nights_slider.value)
        s3 == Widget(s2, "num_reviews_input", num_reviews_slider.value)
        s4 == Widget(s3, "reviews_per_month_input",
                     reviews_per_month_number_input.value)
        s5 == Widget(s4, "host_listings_count_input",
                     host_listings_slider.value)
        s6 == Widget(s5, "availability_input", availability_slider.value)
    IN  Widget(s6, "reviews_ltm_input", reviews_ltm_number_input.value)

\* The session state after the sidebar of one run.
Sidebar(ss) ==
    LET s1 == CitySelectbox(ss)
        s2 == ReactiveRule(s1, s1["city_input"])
    IN  ListingWidgets(LatLonWidgets(s2))

\* A widget that commits whatever is entered.
InRange_unchecked(w, v) == TRUE

\* A slider offers, and a number_input with min_value and max_value commits,
\* only the values of its range.
InRange(w, v) == w.min <= v /\ v <= w.max

----------------------------------------------------------------------------
(* Features, prediction, importances.                                      *)

\* input_dict: the widgets' return values are the values stored under their
\* keys.
input_dict(ss) ==
    [col \in {columns_order[i] : i \in 1..Len(columns_order)} |->
        CASE col = "latitude" -> ss["latitude_input"]
          [] col = "longitude" -> ss["longitude_input"]
          [] col = "room_type" -> room_type_map[ss["room_type_input"]]
          [] col = "minimum_nights" -> ss["min_nights_input"]
          [] col = "number_of_reviews" -> ss["num_reviews_input"]
          [] col = "reviews_per_month" -> ss["reviews_per_month_input"]
          [] col = "calculated_host_listings_count" ->
                                       ss["host_listings_count_input"]
          [] col = "availability_365" -> ss["availability_input"]
          [] col = "number_of_reviews_ltm" -> ss["reviews_ltm_input"]
          [] col = "city" -> city_map[ss["city_input"]]]

\* pd.DataFrame([input_dict], columns=columns_order): the row, column by column.
BuildInputDf(ss) ==
    [i \in 1..Len(columns_order) |-> input_dict(ss)[columns_order[i]]]

\* scaler.transform and model.predict are opaque: their results are named by
\* the object applied and its argument.
Transform(sc, df) == [scaler |-> sc, x |-> df]
Predict(m, X) == [model |-> m, X |-> X]

Reverse(s) == [i \in 1..Len(s) |-> s[Len(s) + 1 - i]]

InsertAt(s, k, e) ==
    [i \in 1..(Len(s) + 1) |->
        IF i < k THEN s[i] ELSE IF i = k THEN e ELSE s[i - 1]]

\* np.argsort(a) with the default kind: an index array (0-based) that puts a
\* in ascending order.  The default sort is not stable, so the order of equal
\* elements is any order; the results are built by insertion, an equal
\* element going to any place among its equals.
RECURSIVE ArgsortPrefix(_, _)
ArgsortPrefix(a, n) ==
    IF n = 0 THEN {<<>>}
    ELSE UNION {
            { InsertAt(p, k, n - 1) :
                k \in { k \in 1..(Len(p) + 1) :
                          /\ \A j \in 1..(k - 1) : a[p[j] + 1] <= a[n]
                          /\ \A j \in k..Len(p) : a[n] <= a[p[j] + 1] } }
            : p \in ArgsortPrefix(a, n - 1) }

argsort(a) == ArgsortPrefix(a, Len(a))

\* The slice without the reversal: np.argsort(importances)[:5].
top_idx_ascending(order) ==
    SubSeq(order, 1, IF Len(order) < 5 THEN Len(order) ELSE 5)

\* np.argsort(importances)[::-1][:5], for one result of argsort.
top_idx(order) ==
    LET r == Reverse(order)
    IN  SubSeq(r, 1, IF Len(r) < 5 THEN Len(r) ELSE 5)

\* fi_df: feat_names[top_idx] beside importances[top_idx].
BuildFiDf(a, order) ==
    LET t == top_idx(order)
    IN  [i \in 1..Len(t) |->
            [Feature |-> columns_order[t[i] + 1],
             Importance |-> a[t[i] + 1],
             index |-> t[i]]]

----------------------------------------------------------------------------
(* One run of the script.                                                  *)

RunScript ==
    /\ pc = "pending"
    /\ \E outcome \in LoadOutcomes :
       \E order \in (IF checkbox THEN argsort(importances) ELSE {<<>>}) :
         LET l == cached_load_model(cache, outcome, model_loads, scaler_loads,
                                    load_attempts)
             ss == Sidebar(session_state)
             df == BuildInputDf(ss)
         IN  /\ cache' = l.cache
             /\ model_loads' = l.model_loads
             /\ scaler_loads' = l.scaler_loads
             /\ load_attempts' = l.load_attempts
             /\ IF l.raised
                THEN \* `model, scaler = load_model()` raised: the run stops
                     \* there and the page shows the exception.
                     /\ pc' = "error"
                     /\ model' = NoHandles.model
                     /\ scaler' = NoHandles.scaler
                     /\ session_state' = session_state
                     /\ input_df' = <<>>
                     /\ predicted_price' = NoPrice
                     /\ fi_df' = <<>>
                     /\ map_location' = <<>>
                ELSE /\ pc' = "idle"
                     /\ model' = l.handles.model
                     /\ scaler' = l.handles.scaler
                     /\ session_state' = ss
                     /\ input_df' = df
                     /\ predicted_price' =
                            Predict(l.handles.model,
                                    Transform(l.handles.scaler, df))
                     /\ fi_df' = IF checkbox
                                 THEN BuildFiDf(importances, order)
                                 ELSE <<>>
                     /\ map_location' =
                            <<ss["latitude_input"], ss["longitude_input"]>>
    /\ UNCHANGED <<checkbox, left_edit, importances>>

----------------------------------------------------------------------------
(* Widget events.  An event stores the new value of one widget and         *)
(* requests a run; a value equal to the stored one is no event.            *)

\* What the user types or picks, in and out of the widgets' ranges.
LatitudeInputs == {48860000, -33868800}
LongitudeInputs == {2350000, 151209300}
ReviewsPerMonthInputs == {-10, 0, 125}
RangeInputs(w) == {w.min - 1, w.min, w.value, w.max, w.max + 1}

Outputs == <<cache, model, scaler, model_loads, scaler_loads, load_attempts,
             importances, input_df, predicted_price, fi_df, map_location>>

SetWidget(k, v) ==
    /\ pc = "idle"
    /\ Has(session_state, k)
    /\ session_state[k] # v
    /\ session_state' = Put(session_state, k, v)
    /\ pc' = "pending"
    /\ UNCHANGED Outputs

SelectCity ==
    \E c \in DOMAIN city_coords :
        SetWidget("city_input", c) /\ UNCHANGED <<checkbox, left_edit>>

\* SelectCity, remembering the city that is left when its latitude is not its
\* default, with the latitude it is left with.
SelectCityTracked ==
    \E c \in DOMAIN city_coords :
        /\ SetWidget("city_input", c)
        /\ LET old == session_state["city_input"]
               lat == session_state["latitude_input"]
           IN  left_edit' = IF lat # city_coords[old][1]
                            THEN [city |-> old, latitude |-> lat]
                            ELSE left_edit
        /\ UNCHANGED checkbox

EditLatitude ==
    \E v \in LatitudeInputs :
        SetWidget("latitude_input", v) /\ UNCHANGED <<checkbox, left_edit>>

EditLongitude ==
    \E v \in LongitudeInputs :
        SetWidget("longitude_input", v) /\ UNCHANGED <<checkbox, left_edit>>

SelectRoomType ==
    \E r \in DOMAIN room_type_map :
        SetWidget("room_type_input", r) /\ UNCHANGED <<checkbox, left_edit>>

SlideMinimumNights ==
    \E v \in RangeInputs(min_nights_slider) :
        /\ InRange(min_nights_slider, v)
        /\ SetWidget("min_nights_input", v)
        /\ UNCHANGED <<checkbox, left_edit>>

SlideNumberOfReviews ==
    \E v \in RangeInputs(num_reviews_slider) :
        /\ InRange(num_reviews_slider, v)
        /\ SetWidget("num_reviews_input", v)
        /\ UNCHANGED <<checkbox, left_edit>>

EditReviewsPerMonth ==
    \E v \in ReviewsPerMonthInputs :
        /\ SetWidget("reviews_per_month_input", v)
        /\ UNCHANGED <<checkbox, left_edit>>

SlideHostListingsCount ==
    \E v \in RangeInputs(host_listings_slider) :
        /\ InRange(host_listings_slider, v)
        /\ SetWidget("host_listings_count_input", v)
        /\ UNCHANGED <<checkbox, left_edit>>

SlideAvailability ==
    \E v \in RangeInputs(availability_slider) :
        /\ InRange(availability_slider, v)
        /\ SetWidget("availability_input", v)
        /\ UNCHANGED <<checkbox, left_edit>>

EditReviewsLtm ==
    \E v \in RangeInputs(reviews_ltm_number_input) :
        /\ InRange(reviews_ltm_number_input, v)
        /\ SetWidget("reviews_ltm_input", v)
        /\ UNCHANGED <<checkbox, left_edit>>

ToggleCheckbox ==
    /\ pc = "idle"
    /\ checkbox' = ~checkbox
    /\ pc' = "pending"
    /\ UNCHANGED <<session_state, left_edit>>
    /\ UNCHANGED Outputs

\* A run with no widget changed: the user reloads, or retries after an error.
Rerun ==
    /\ \/ pc = "idle"
       \/ pc = "error" /\ load_attempts < MaxLoadAttempts
    /\ pc' = "pending"
    /\ UNCHANGED <<session_state, checkbox, left_edit>>
    /\ UNCHANGED Outputs

----------------------------------------------------------------------------
(* Specifications.                                                         *)

\* The importances of the artifact: the weights 0.1, 0.5, 0.05, 0.2, 0.05,
\* 0.3, 0, 0, 0, 0 in units of 0.01.
ExampleImportances == <<10, 50, 5, 20, 5, 30, 0, 0, 0, 0>>

\* A new session of a new process: nothing stored, the first run requested.
InitWith(imp) ==
    /\ session_state = EmptySession
    /\ checkbox = FALSE
    /\ left_edit = NoEdit
    /\ pc = "pending"
    /\ cache = NoHandles
    /\ model = NoHandles.model
    /\ scaler = NoHandles.scaler
    /\ model_loads = 0
    /\ scaler_loads = 0
    /\ load_attempts = 0
    /\ importances = imp
    /\ input_df = <<>>
    /\ predicted_price = NoPrice
    /\ fi_df = <<>>
    /\ map_location = <<>>

Init == InitWith(ExampleImportances)

\* City, coordinates, room type and reviews per month.
Next ==
    \/ RunScript
    \/ Rerun
    \/ SelectCity
    \/ EditLatitude
    \/ EditLongitude
    \/ SelectRoomType
    \/ EditReviewsPerMonth

Spec == Init /\ [][Next]_vars

\* The listing widgets, the city left on its first option.
NextWidgets ==
    \/ RunScript
    \/ Rerun
    \/ SelectRoomType
    \/ SlideMinimumNights
    \/ SlideNumberOfReviews
    \/ EditReviewsPerMonth
    \/ SlideHostListingsCount
    \/ SlideAvailability
    \/ EditReviewsLtm

SpecWidgets == Init /\ [][NextWidgets]_vars

\* City and coordinates, with the history of the city last left.
NextReturn ==
    \/ RunScript
    \/ Rerun
    \/ SelectCityTracked
    \/ EditLatitude
    \/ EditLongitude

SpecReturn == Init /\ [][NextReturn]_vars

\* The importance chart over a family of artifacts: two weight vectors, each
\* with one weight replaced by any of 0..MaxWeight.
BaseImportances == {ExampleImportances, <<6, 5, 4, 3, 2, 1, 0, 1, 2, 3>>}

ImportanceInputs ==
    { [b EXCEPT ![i] = w] :
        b \in BaseImportances, i \in 1..Len(columns_order), w \in 0..MaxWeight }

InitTop == \E imp \in ImportanceInputs : InitWith(imp)

NextTop ==
    \/ RunScript
    \/ Rerun
    \/ ToggleCheckbox

SpecTop == InitTop /\ [][NextTop]_vars

\* The feature vector over a family of form states: a run is pending on a
\* session whose widgets hold any combination of the values below.
WidgetValues(w) == {w.min, w.value, w.max}

FormStates ==
    { [k \in {"city_input", "latitude_input", "longitude_input", "last_city",
              "room_type_input", "min_nights_input", "num_reviews_input",
              "reviews_per_month_input", "host_listings_count_input",
              "availability_input", "reviews_ltm_input"} |->
        CASE k = "city_input" -> c
          [] k = "last_city" -> c
          [] k = "latitude_input" -> IF la = 0 THEN city_coords[c][1] ELSE la
          [] k = "longitude_input" -> IF lo = 0 THEN city_coords[c][2] ELSE lo
          [] k = "room_type_input" -> r
          [] k = "min_nights_input" -> n[1]
          [] k = "num_reviews_input" -> n[2]
          [] k = "reviews_per_month_input" -> m
          [] k = "host_listings_count_input" -> n[3]
          [] k = "availability_input" -> n[4]
          [] k = "reviews_ltm_input" -> n[5]] :
        c \in DOMAIN city_coords,
        la \in {0, -33868800},
        lo \in {0, 151209300},
        r \in DOMAIN room_type_map,
        m \in ReviewsPerMonthInputs,
        n \in { <<a, b, d, e, f>> :
                  a \in WidgetValues(min_nights_slider),
                  b \in WidgetValues(num_reviews_slider),
                  d \in WidgetValues(host_listings_slider),
                  e \in WidgetValues(availability_slider),
                  f \in WidgetValues(reviews_ltm_number_input) } }

InitFeat ==
    /\ session_state \in FormStates
    /\ checkbox = FALSE
    /\ left_edit = NoEdit
    /\ pc = "pending"
    /\ cache = [model |-> 1, scaler |-> 1]
    /\ model = 1
    /\ scaler = 1
    /\ model_loads = 1
    /\ scaler_loads = 1
    /\ load_attempts = 1
    /\ importances = ExampleImportances
    /\ input_df = <<>>
    /\ predicted_price = NoPrice
    /\ fi_df = <<>>
    /\ map_location = <<>>

NextFeat == RunScript

SpecFeat == InitFeat /\ [][NextFeat]_vars

----------------------------------------------------------------------------
(* Properties.                                                             *)

\* A step that is one complete run of the script.
CompletedRun == pc = "pending" /\ pc' = "idle"

AllUnset(ss) ==
    /\ ~Has(ss, "latitude_input")
    /\ ~Has(ss, "longitude_input")
    /\ ~Has(ss, "last_city")

AllSet(ss) ==
    /\ Has(ss, "latitude_input")
    /\ Has(ss, "longitude_input")
    /\ Has(ss, "last_city")

\* C1: a run whose selected city is C while last_city is unset or differs
\* from C (the first run included) ends with latitude and longitude equal to
\* C's stored pair and last_city equal to C, whatever was held before.
C1_CityChangeSetsDefaults ==
    [][ (/\ CompletedRun
         /\ \/ ~Has(session_state, "last_city")
            \/ session_state["last_city"] # session_state["city_input"])
        => \E i \in 1..Len(CityList) :
             /\ Has(session_state, "city_input")
                    => session_state["city_input"] = CityList[i]
             /\ session_state'["city_input"] = CityList[i]
             /\ session_state'["latitude_input"] = city_coords[CityList[i]][1]
             /\ session_state'["longitude_input"] = city_coords[CityList[i]][2]
             /\ session_state'["last_city"] = CityList[i] ]_vars

\* C1 witness: Brussels was selected over a hand-edited pair and the run
\* after the selection has put Brussels' pair in its place.
C1_Witness ==
    /\ pc = "idle"
    /\ session_state["city_input"] = "Brussels"
    /\ session_state["last_city"] = "Brussels"
    /\ session_state["latitude_input"] = 50850300
    /\ session_state["longitude_input"] = 4351700

\* C2: a run that starts with latitude and longitude set and the selected
\* city equal to last_city leaves latitude and longitude as they were, so an
\* edited latitude survives every run without a city change.
C2_ManualEditPreserved ==
    [][ (/\ CompletedRun
         /\ Has(session_state, "latitude_input")
         /\ Has(session_state, "longitude_input")
         /\ Has(session_state, "last_city")
         /\ session_state["last_city"] = session_state["city_input"])
        => /\ session_state'["latitude_input"] = session_state["latitude_input"]
           /\ session_state'["longitude_input"] =
                  session_state["longitude_input"]
           /\ map_location' = <<session_state["latitude_input"],
                                session_state["longitude_input"]>> ]_vars

\* C2 witness: Rome selected, both coordinates edited by hand, and further
\* runs (room type, reviews per month) completed since.
C2_Witness ==
    /\ pc = "idle"
    /\ session_state["city_input"] = "Rome"
    /\ session_state["latitude_input"] = -33868800
    /\ session_state["longitude_input"] = 151209300
    /\ session_state["room_type_input"] = "Shared room"
    /\ session_state["reviews_per_month_input"] = 125

\* C3: when the user comes back to a city A that was left with a hand-edited
\* latitude, the run of the return ends with A's stored latitude and
\* longitude, not the latitude A was left with.
C3_ResetOnReturn ==
    [][ (/\ CompletedRun
         /\ Has(session_state, "last_city")
         /\ session_state["last_city"] # session_state["city_input"]
         /\ left_edit.city = session_state["city_input"])
        => /\ session_state'["latitude_input"] = city_coords[left_edit.city][1]
           /\ session_state'["longitude_input"] = city_coords[left_edit.city][2]
           /\ session_state'["latitude_input"] # left_edit.latitude ]_vars

\* C3 witness: Dublin was left with an edited latitude, is selected again,
\* and shows its stored pair.
C3_Witness ==
    /\ pc = "idle"
    /\ left_edit.city = "Dublin"
    /\ left_edit.latitude = 48860000
    /\ session_state["city_input"] = "Dublin"
    /\ session_state["latitude_input"] = 53349800
    /\ session_state["longitude_input"] = -6260300

\* C4: the feature vector of a run has 10 entries, in the order latitude,
\* longitude, room_type, minimum_nights, number_of_reviews,
\* reviews_per_month, host_listings_count, availability_365, reviews_ltm,
\* city; room_type and city are the 0-based positions of the labels in their
\* lists (Paris 0, Brussels 14) and the other eight are the form's values.
C4_FeatureVector ==
    pc = "idle" =>
        /\ Len(input_df) = 10
        /\ input_df[1] = session_state["latitude_input"]
        /\ input_df[2] = session_state["longitude_input"]
        /\ <<"Entire home/apt", "Private room", "Shared room">>[input_df[3] + 1]
               = session_state["room_type_input"]
        /\ input_df[4] = session_state["min_nights_input"]
        /\ input_df[5] = session_state["num_reviews_input"]
        /\ input_df[6] = session_state["reviews_per_month_input"]
        /\ input_df[7] = session_state["host_listings_count_input"]
        /\ input_df[8] = session_state["availability_input"]
        /\ input_df[9] = session_state["reviews_ltm_input"]
        /\ CityList[input_df[10] + 1] = session_state["city_input"]
        /\ session_state["city_input"] = "Paris" => input_df[10] = 0
        /\ session_state["city_input"] = "Brussels" => input_df[10] = 14
        /\ session_state = Sidebar(EmptySession)
               => input_df = <<48856600, 2352200, 0, 1, 50, 0, 1, 200, 0, 0>>

\* C4 witness: the vector of a Brussels form with every field off its default.
C4_Witness ==
    /\ pc = "idle"
    /\ session_state["city_input"] = "Brussels"
    /\ input_df = <<-33868800, 4351700, 2, 30, 500, 125, 10, 365, 500, 14>>

\* Weight and original position of the rows of the chart.
Shown == {fi_df[i].index : i \in 1..Len(fi_df)}
Hidden == (0..(Len(importances) - 1)) \ Shown

RowsAreFeatures ==
    /\ Len(fi_df) = 5
    /\ Cardinality(Shown) = 5
    /\ \A i \in 1..Len(fi_df) :
         /\ fi_df[i].index \in 0..(Len(importances) - 1)
         /\ fi_df[i].Feature = columns_order[fi_df[i].index + 1]
         /\ fi_df[i].Importance = importances[fi_df[i].index + 1]

\* C5 as stated: with the toggle on, the chart is the 5 features of largest
\* weight in descending order, each with its own weight, equal weights in
\* their original order (lower original index first), at the cut-off too.
C5_Original ==
    (pc = "idle" /\ checkbox) =>
        /\ RowsAreFeatures
        /\ \A i, j \in 1..Len(fi_df) :
             i < j => \/ fi_df[i].Importance > fi_df[j].Importance
                      \/ /\ fi_df[i].Importance = fi_df[j].Importance
                         /\ fi_df[i].index < fi_df[j].index
        /\ \A k \in Hidden :
             \/ importances[k + 1] < fi_df[Len(fi_df)].Importance
             \/ /\ importances[k + 1] = fi_df[Len(fi_df)].Importance
                /\ k > fi_df[Len(fi_df)].index

\* C5 amended: with the toggle on, the chart is 5 distinct features, each
\* with its own weight, in non-increasing order of weight, and no feature
\* left out is heavier than one shown; the order among equal weights is not
\* fixed.  With the toggle off there is no chart.
C5_TopFive ==
    /\ (pc = "idle" /\ checkbox) =>
          /\ RowsAreFeatures
          /\ \A i, j \in 1..Len(fi_df) :
               i < j => fi_df[i].Importance >= fi_df[j].Importance
          /\ \A k \in Hidden : \A i \in 1..Len(fi_df) :
               importances[k + 1] <= fi_df[i].Importance
    /\ (pc = "idle" /\ ~checkbox) => fi_df = <<>>

\* C5 witness: a chart whose last row ties with a feature left out, and whose
\* equal weights stand with the higher original index first.
C5_Witness ==
    /\ pc = "idle"
    /\ checkbox
    /\ Len(fi_df) = 5
    /\ \E k \in Hidden : importances[k + 1] = fi_df[5].Importance
    /\ \E i \in 1..4 :
         /\ fi_df[i].Importance = fi_df[i + 1].Importance
         /\ fi_df[i].index > fi_df[i + 1].index

\* C6 as stated: reviews_per_month is never negative, in the form and in the
\* feature vector.
C6_ReviewsPerMonthNonNegative ==
    /\ Has(session_state, "reviews_per_month_input")
          => session_state["reviews_per_month_input"] >= 0
    /\ input_df # <<>> => input_df[6] >= 0

\* The declared ranges, in the form and in the feature vector.
C7_InRanges ==
    /\ Has(session_state, "min_nights_input")
          => session_state["min_nights_input"] \in 1..30
    /\ Has(session_state, "num_reviews_input")
          => session_state["num_reviews_input"] \in 0..500
    /\ Has(session_state, "host_listings_count_input")
          => session_state["host_listings_count_input"] \in 1..10
    /\ Has(session_state, "availability_input")
          => session_state["availability_input"] \in 0..365
    /\ Has(session_state, "reviews_ltm_input")
          => session_state["reviews_ltm_input"] \in 0..500
    /\ pc = "idle" =>
          /\ input_df[4] \in 1..30
          /\ input_df[5] \in 0..500
          /\ input_df[7] \in 1..10
          /\ input_df[8] \in 0..365
          /\ input_df[9] \in 0..500

\* C7: the bounded integer fields stay in their ranges, and the first run
\* leaves them at 1, 50, 1, 200 and 0.
C7_BoundedFields ==
    /\ C7_InRanges
    /\ [][ /\ C7_InRanges'
           /\ (CompletedRun /\ session_state = EmptySession)
                => /\ session_state'["min_nights_input"] = 1
                   /\ session_state'["num_reviews_input"] = 50
                   /\ session_state'["host_listings_count_input"] = 1
                   /\ session_state'["availability_input"] = 200
                   /\ session_state'["reviews_ltm_input"] = 0 ]_vars

\* C7 witness: every bounded field has been moved to the upper end of its
\* range and a run has completed.
C7_Witness ==
    /\ pc = "idle"
    /\ session_state["min_nights_input"] = 30
    /\ session_state["num_reviews_input"] = 500
    /\ session_state["host_listings_count_input"] = 10
    /\ session_state["availability_input"] = 365
    /\ session_state["reviews_ltm_input"] = 500

\* A step in which the body of load_model ran and did not return: the scaler,
\* the last thing it loads, was not loaded.
LoadFailed ==
    /\ load_attempts' = load_attempts + 1
    /\ scaler_loads' = scaler_loads

\* C8: a run in which loading the model or the scaler fails ends in the
\* error state, with no price, no feature vector, no chart, no map and no
\* form state.
C8_LoadFailureIsFatal ==
    [][ LoadFailed
        => /\ pc' = "error"
           /\ predicted_price' = NoPrice
           /\ input_df' = <<>>
           /\ fi_df' = <<>>
           /\ map_location' = <<>>
           /\ session_state' = EmptySession
           /\ cache' = NoHandles ]_vars

\* C8 witness: the model was loaded, the scaler failed, the page shows the
\* error.
C8_Witness ==
    /\ pc = "error"
    /\ model_loads = 1
    /\ scaler_loads = 0
    /\ load_attempts = 1

C9_Handles ==
    /\ scaler_loads <= 1
    /\ model_loads <= load_attempts
    /\ cache # NoHandles <=> scaler_loads = 1
    /\ pc = "idle" => /\ cache # NoHandles
                      /\ model = cache.model
                      /\ scaler = cache.scaler
                      /\ predicted_price.model = cache.model
                      /\ predicted_price.X.scaler = cache.scaler

C10_Together ==
    /\ \/ AllUnset(session_state) /\ session_state = EmptySession
                                  /\ pc # "idle"
       \/ AllSet(session_state)
    /\ pc = "idle" =>
          session_state["last_city"] = session_state["city_input"]

\* C10: latitude, longitude and last_city are all unset (only before the
\* first completed run, when nothing at all is stored) or all set; after a
\* run last_city is the selected city; and a run changes no stored field
\* other than these three.
C10_GeoFieldsTogether ==
    /\ C10_Together
    /\ [][ /\ C10_Together'
           /\ CompletedRun
                => \A k \in (DOMAIN session_state)
                         \ {"latitude_input", "longitude_input", "last_city"} :
                      session_state'[k] = session_state[k] ]_vars

\* C10 witness: a city change was handled with other fields off their
\* defaults.
C10_Witness ==
    /\ pc = "idle"
    /\ session_state["city_input"] = "Athens"
    /\ session_state["last_city"] = "Athens"
    /\ session_state["room_type_input"] = "Private room"
    /\ session_state["reviews_per_month_input"] = -10

====
